---------------------------- MODULE Spec2Model ----------------------------
(***************************************************************************)
(* The chunk-tree builder of the YCOE corpus reader                        *)
(* (nltk/corpus/reader/ycoe.py, _chunk_parse), one sentence at a time.     *)
(*                                                                         *)
(* A Python string is a sequence of one-character strings, so that         *)
(* itm[0], itm[1:], itm[-1], itm[:len(eachItm)] and split(itm, itm[-1])    *)
(* are computed as the code computes them.  A tree.Tree is a record        *)
(* [isLeaf |-> FALSE, label, kids]; a leaf tuple (itmType, text) is a      *)
(* record [isLeaf |-> TRUE, label |-> itmType, tok |-> text].              *)
(***************************************************************************)
EXTENDS Integers, Sequences, FiniteSets, TLC

\* The number of tokens of the longest sentence explored.
MaxLen == 4

VARIABLES
    chunk_types,        \* [isNone, items]: None, or the tuple of chunk types
    top_node,           \* label of the synthetic root
    partial_match,
    collapse_partials,
    cascade,
    bracket,            \* bracket depth counter
    itmType,            \* label of the most recently opened bracket, or None
    stack,              \* the frame stack, bottom first
    inTag,              \* the depth markers
    consumed,           \* the tokens of the sentence scanned so far
    pc,                 \* "scan", "done" (stack was yielded) or "error"
    err,                \* the exception raised, "" if none
    result,             \* the yielded value
    \* YCOECorpusReader.__init__ and its delegating methods
    psd_items,          \* self._psd_reader.items
    pos_items,          \* self._pos_reader.items
    items,              \* self.items, NoItems while unset
    ctor,               \* "new", "ready" or the exception raised
    reads,              \* the calls delegated to the sub-readers
    \* read_document
    reader,             \* the module called: "ycoe" or "treebank"
    format,
    item,               \* [isList, docs]: one identifier or a list
    handles,            \* the file objects open and not yet closed
    outcome,            \* [status, err] of the call
    \* _parse and YCOEParseCorpusReader._parse
    pieces,             \* the document text, piece by piece
    cleaned,            \* s after the re.sub of _parse
    sents,              \* the sentences _parse yields
    handed,             \* the text given to BracketParseCorpusReader._parse
    tpc                 \* "edit", "segmented" or "parsed"

policy == <<chunk_types, top_node, partial_match, collapse_partials, cascade>>
vars == <<chunk_types, top_node, partial_match, collapse_partials, cascade,
          bracket, itmType, stack, inTag, consumed, pc, err, result,
          psd_items, pos_items, items, ctor, reads,
          reader, format, item, handles, outcome,
          pieces, cleaned, sents, handed, tpc>>

builderVars == <<policy, bracket, itmType, stack, inTag, consumed, pc, err,
                 result>>
ctorVars == <<psd_items, pos_items, items, ctor, reads>>
readVars == <<reader, format, item, handles, outcome>>
textVars == <<pieces, cleaned, sents, handed, tpc>>

(***************************************************************************)
(* Strings                                                                 *)
(***************************************************************************)
NP     == <<"N", "P">>
N      == <<"N">>
PP     == <<"P", "P">>
NP_SBJ == <<"N", "P", "-", "S", "B", "J">>
S      == <<"S">>
ROOT   == <<"R", "O", "O", "T">>
w1     == <<"w", "1">>
w2     == <<"w", "2">>
w      == <<"w">>

\* Python's None, where the code holds it in place of a string.
None == <<"None">>

Range(s) == { s[i] : i \in 1..Len(s) }

\* The whitespace-separated tokens a sentence may hold.
Tokens ==
    { <<"(">> \o NP, <<"(">> \o NP_SBJ, <<"(">> \o PP,
      w1 \o <<")">>, w2 \o <<")">>, w1 \o <<")", ")">>,
      w, <<")">>, <<"(">> }

\* The chunk_types arguments explored: None, (), ('NP',), ('NP','N'), ('N','NP').
ChunkTypeChoices ==
    { [isNone |-> TRUE,  items |-> <<>>],
      [isNone |-> FALSE, items |-> <<>>],
      [isNone |-> FALSE, items |-> <<NP>>],
      [isNone |-> FALSE, items |-> <<NP, N>>],
      [isNone |-> FALSE, items |-> <<N, NP>>] }

\* The top_node arguments explored: the default and one other.
TopNodes == { S, ROOT }

L_BRACKET == { "(", "[", "{", "<" }
\* A closing class that also takes a letter.
R_BRACKET_OrLetter == { ")", "]", "}", ">", "w" }

R_BRACKET == { ")", "]", "}", ">" }

\* s[-1]
Last(s) == s[Len(s)]

\* s[:-2]
DropLastTwo(s) == IF Len(s) <= 2 THEN <<>> ELSE SubSeq(s, 1, Len(s) - 2)

\* string.split(s, sep) for a one-character sep
RECURSIVE split(_, _)
split(s, sep) ==
    IF \A i \in 1..Len(s) : s[i] # sep
    THEN <<s>>
    ELSE LET i == CHOOSE k \in 1..Len(s) :
                     s[k] = sep /\ \A j \in 1..(k - 1) : s[j] # sep
         IN  <<SubSeq(s, 1, i - 1)>> \o split(SubSeq(s, i + 1, Len(s)), sep)

(***************************************************************************)
(* Trees                                                                   *)
(***************************************************************************)
Tree(node, children) == [isLeaf |-> FALSE, label |-> node, kids |-> children]
Leaf(tag, text)      == [isLeaf |-> TRUE, label |-> tag, tok |-> text]

\* t.append(c)
TreeAppend(t, c) == [t EXCEPT !.kids = Append(@, c)]

\* stack[-1].append(c)
AppendToTop(stk, c) ==
    [stk EXCEPT ![Len(stk)] = TreeAppend(@, c)]

\* stack[-1][-1].append(c), for a top frame whose last child is a Tree
AppendToLastChildOfTop(stk, c) ==
    [stk EXCEPT ![Len(stk)].kids[Len(stk[Len(stk)].kids)] = TreeAppend(@, c)]

\* A pop that keeps the wrong end of the stack: stack = stack[1:]
PopFrameFromBottom(stk) ==
    IF Len(stk) > 1
    THEN Tail([stk EXCEPT ![Len(stk) - 1] = TreeAppend(@, stk[Len(stk)])])
    ELSE stk

\* if len(stack) > 1: stack[-2].append(stack[-1]); stack = stack[:-1]
PopFrame(stk) ==
    IF Len(stk) > 1
    THEN SubSeq(stk, 1, Len(stk) - 2)
             \o <<TreeAppend(stk[Len(stk) - 1], stk[Len(stk)])>>
    ELSE stk

(***************************************************************************)
(* The opening half of the loop body                                       *)
(***************************************************************************)
\* len(eachItm) <= len(itm) and eachItm == itm[:len(eachItm)]
IsPrefix(eachItm, itm) ==
    Len(eachItm) <= Len(itm) /\ eachItm = SubSeq(itm, 1, Len(eachItm))

\* A partial match that never renames the label.
CollapseNever(collapse, eachItm, itm) == itm

\* The label a partial match leaves in itm.
Collapse(collapse, eachItm, itm) == IF collapse THEN eachItm ELSE itm

\* for eachItm in chunk_types: ... , from the i-th entry on; itm is rebound
\* inside the loop and the loop does not break.
RECURSIVE PartialLoop(_, _, _, _, _)
PartialLoop(types, i, collapse, itm, matched) ==
    IF i > Len(types)
    THEN [itm |-> itm, matched |-> matched]
    ELSE IF IsPrefix(types[i], itm)
         THEN PartialLoop(types, i + 1, collapse,
                          Collapse(collapse, types[i], itm), TRUE)
         ELSE PartialLoop(types, i + 1, collapse, itm, matched)

\* An exact match that accepts a chunk type as a prefix of the label.
ExactMatchByPrefix(types, itm) ==
    ~types.isNone /\ \E t \in Range(types.items) : IsPrefix(t, itm)

\* chunk_types is not None and itm in chunk_types
ExactMatch(types, itm) == ~types.isNone /\ itm \in Range(types.items)

\* A flat chunk that opens whether or not a chunk is open.
MayOpenFlatAlways(tags) == TRUE

\* len(inTag) == 0: without cascade a chunk opens only outside every chunk
MayOpenFlat(tags) == Len(tags) = 0

\* The builder's registers, with the token as rebound so far.
Regs(itm, b, t, stk, tags, e) ==
    [itm |-> itm, bracket |-> b, itmType |-> t, stack |-> stk,
     inTag |-> tags, err |-> e]

\* if L_BRACKET.match(itm[0]): ... itmType = itm
OpenBracket(r) ==
    IF r.itm[1] \notin L_BRACKET THEN r
    ELSE
    LET b   == r.bracket + 1
        itm == Tail(r.itm)
    IN  IF partial_match /\ chunk_types.isNone
        THEN [r EXCEPT !.err = "TypeError"]
        ELSE
        LET m == IF partial_match
                 THEN PartialLoop(chunk_types.items, 1, collapse_partials,
                                  itm, FALSE)
                 ELSE [itm |-> itm, matched |-> ExactMatch(chunk_types, itm)]
            chunk == Tree(m.itm, <<>>)
        IN  IF ~m.matched
            THEN Regs(m.itm, b, m.itm, r.stack, r.inTag, "")
            ELSE IF cascade
            THEN Regs(m.itm, b, m.itm, Append(r.stack, chunk),
                      Append(r.inTag, b), "")
            ELSE IF MayOpenFlat(r.inTag)
            THEN Regs(m.itm, b, m.itm, AppendToTop(r.stack, chunk),
                      Append(r.inTag, b), "")
            ELSE Regs(m.itm, b, m.itm, r.stack, r.inTag, "")

(***************************************************************************)
(* The closing half of the loop body                                       *)
(***************************************************************************)
\* while len(inTag) > 0 and bracket < inTag[-1]: ...
RECURSIVE CloseLoop(_, _, _)
CloseLoop(b, stk, tags) ==
    IF Len(tags) > 0 /\ b < Last(tags)
    THEN CloseLoop(b, IF cascade THEN PopFrame(stk) ELSE stk,
                   DropLastTwo(tags))
    ELSE [stack |-> stk, inTag |-> tags]

\* tmpItm != "": a list is never equal to a string
HasLeaf(tmpItm) == TRUE

\* if R_BRACKET.match(itm[-1]): ...
CloseBracket(r) ==
    IF r.err # "" THEN r
    ELSE IF Len(r.itm) = 0 THEN [r EXCEPT !.err = "IndexError"]
    ELSE IF Last(r.itm) \notin R_BRACKET THEN r
    ELSE
    LET tmpItm == split(r.itm, Last(r.itm))
        leaf   == Leaf(r.itmType, tmpItm[1])
        top    == Last(r.stack)
        inChunk == Len(r.inTag) > 0 /\ Last(r.inTag) <= r.bracket
        b      == r.bracket - (Len(tmpItm) - 1)
    IN  IF HasLeaf(tmpItm) /\ inChunk /\ ~cascade /\ Len(top.kids) = 0
        THEN [r EXCEPT !.err = "IndexError"]
        ELSE IF HasLeaf(tmpItm) /\ inChunk /\ ~cascade /\ Last(top.kids).isLeaf
        THEN [r EXCEPT !.err = "AttributeError"]
        ELSE
        LET stk1 == IF ~HasLeaf(tmpItm) THEN r.stack
                    ELSE IF inChunk
                    THEN IF cascade
                         THEN AppendToTop(r.stack, leaf)
                         ELSE AppendToLastChildOfTop(r.stack, leaf)
                    ELSE AppendToTop(IF cascade THEN PopFrame(r.stack)
                                                ELSE r.stack, leaf)
            tags1 == IF HasLeaf(tmpItm) /\ ~inChunk
                     THEN DropLastTwo(r.inTag) ELSE r.inTag
            c == CloseLoop(b, stk1, tags1)
        IN  Regs(r.itm, b, r.itmType, c.stack, c.inTag, "")

\* One pass of `for itm in list(tokenize.whitespace(s))`.
LoopBody(itm) ==
    CloseBracket(OpenBracket(Regs(itm, bracket, itmType, stack, inTag, "")))

(***************************************************************************)
(* The state machine of the builder                                        *)
(***************************************************************************)
\* self.items before __init__ assigns it.
NoItems == <<"<unset>">>

\* No reader is being constructed.
IdleCtor ==
    /\ psd_items = <<>> /\ pos_items = <<>> /\ items = NoItems
    /\ ctor = "idle" /\ reads = 0

\* No read_document call is being made.
IdleRead ==
    /\ reader = "none" /\ format = "" /\ item = [isList |-> FALSE, docs |-> <<>>]
    /\ handles = 0 /\ outcome = [status |-> "idle", err |-> ""]

\* No text is being segmented.
IdleText ==
    /\ pieces = <<>> /\ cleaned = <<>> /\ sents = <<>> /\ handed = <<>>
    /\ tpc = "idle"

Init ==
    /\ IdleCtor /\ IdleRead /\ IdleText
    /\ chunk_types \in ChunkTypeChoices
    /\ top_node \in TopNodes
    /\ partial_match \in BOOLEAN
    /\ collapse_partials \in BOOLEAN
    /\ cascade \in BOOLEAN
    /\ bracket = 0
    /\ itmType = None
    /\ stack = <<Tree(top_node, <<>>)>>
    /\ inTag = <<>>
    /\ consumed = <<>>
    /\ pc = "scan"
    /\ err = ""
    /\ result = <<>>

\* The scan of the next token of the sentence.
ScanToken(itm) ==
    /\ pc = "scan"
    /\ Len(consumed) < MaxLen
    /\ consumed' = Append(consumed, itm)
    /\ LET r == LoopBody(itm)
       IN  IF r.err # ""
           THEN /\ pc' = "error"
                /\ err' = r.err
                /\ UNCHANGED <<bracket, itmType, stack, inTag>>
           ELSE /\ bracket' = r.bracket
                /\ itmType' = r.itmType
                /\ stack' = r.stack
                /\ inTag' = r.inTag
                /\ UNCHANGED <<pc, err>>
    /\ UNCHANGED <<policy, result, ctorVars, readVars, textVars>>

\* The token stream is exhausted: yield stack.
YieldStack ==
    /\ pc = "scan"
    /\ pc' = "done"
    /\ result' = stack
    /\ UNCHANGED <<policy, bracket, itmType, stack, inTag, consumed, err,
                   ctorVars, readVars, textVars>>

Next ==
    \/ \E itm \in Tokens : ScanToken(itm)
    \/ YieldStack

Spec == Init /\ [][Next]_vars

\* No sentence is being scanned.
IdleBuilder ==
    /\ chunk_types = [isNone |-> FALSE, items |-> <<NP>>]
    /\ top_node = S
    /\ partial_match = FALSE /\ collapse_partials = TRUE /\ cascade = FALSE
    /\ bracket = 0 /\ itmType = None /\ stack = <<>> /\ inTag = <<>>
    /\ consumed = <<>> /\ pc = "idle" /\ err = "" /\ result = <<>>


(***************************************************************************)
(* What the input says, read off the tokens alone                          *)
(***************************************************************************)
OpensBracket(tok) == Len(tok) > 0 /\ tok[1] \in L_BRACKET

RECURSIVE TrailingCloses(_)
TrailingCloses(tok) ==
    IF Len(tok) > 0 /\ Last(tok) \in R_BRACKET
    THEN 1 + TrailingCloses(SubSeq(tok, 1, Len(tok) - 1))
    ELSE 0

ClosesBracket(tok) == TrailingCloses(tok) > 0

\* The token without its leading bracket and its trailing brackets: the
\* label of an opening token, the text of a closing one.
Written(tok) ==
    SubSeq(tok, IF OpensBracket(tok) THEN 2 ELSE 1,
           Len(tok) - TrailingCloses(tok))

RECURSIVE DepthOf(_)
DepthOf(toks) ==
    IF toks = <<>> THEN 0
    ELSE DepthOf(SubSeq(toks, 1, Len(toks) - 1))
         + (IF OpensBracket(Last(toks)) THEN 1 ELSE 0)
         - TrailingCloses(Last(toks))

Balanced(toks) ==
    /\ DepthOf(toks) = 0
    /\ \A n \in 0..Len(toks) : DepthOf(SubSeq(toks, 1, n)) >= 0

\* For every closing token from the i-th on, the pair of the label of the
\* nearest bracket open around it and its text; open holds the labels of
\* the brackets open before token i, outermost first.
RECURSIVE Enclosed(_, _, _)
Enclosed(toks, i, open) ==
    IF i > Len(toks) THEN <<>>
    ELSE
    LET tok   == toks[i]
        open1 == IF OpensBracket(tok) THEN Append(open, Written(tok)) ELSE open
        k     == TrailingCloses(tok)
        here  == IF k > 0 /\ ~OpensBracket(tok)
                 THEN <<Leaf(IF open1 = <<>> THEN None ELSE Last(open1),
                             Written(tok))>>
                 ELSE <<>>
        open2 == IF k >= Len(open1) THEN <<>>
                 ELSE SubSeq(open1, 1, Len(open1) - k)
    IN  here \o Enclosed(toks, i + 1, open2)

HasText(leaf) == leaf.tok # <<>>

\* The (tag, token) pairs of the terminals of the sentence, in input order.
Terminals(toks) == SelectSeq(Enclosed(toks, 1, <<>>), HasText)

(***************************************************************************)
(* What a tree holds                                                       *)
(***************************************************************************)
RECURSIVE Leaves(_)
RECURSIVE LeavesOfAll(_)
\* The leaves of t, depth-first, left to right.
Leaves(t) == IF t.isLeaf THEN <<t>> ELSE LeavesOfAll(t.kids)
LeavesOfAll(ts) ==
    IF ts = <<>> THEN <<>> ELSE Leaves(Head(ts)) \o LeavesOfAll(Tail(ts))

RECURSIVE Nodes(_)
RECURSIVE NodesOfAll(_)
\* The Tree nodes of t, depth-first, t first.
Nodes(t) == IF t.isLeaf THEN <<>> ELSE <<t>> \o NodesOfAll(t.kids)
NodesOfAll(ts) ==
    IF ts = <<>> THEN <<>> ELSE Nodes(Head(ts)) \o NodesOfAll(Tail(ts))

\* The chunk nodes held by the frames stk: every Tree but the root.
ChunkNodes(stk) == Tail(NodesOfAll(stk))

Labels(ts) == { ts[i].label : i \in 1..Len(ts) }

IsRoot(t) == ~t.isLeaf /\ t.label = top_node

\* The token just scanned opened a chunk node: its marker is the depth
\* the token has just raised.
JustOpened ==
    /\ pc = "scan" /\ consumed # <<>>
    /\ OpensBracket(Last(consumed))
    /\ inTag # <<>> /\ Last(inTag) = bracket

\* The last-created chunk node, when JustOpened.
NewChunk == IF cascade THEN Last(stack) ELSE Last(Last(stack).kids)


(***************************************************************************)
(* C1.  For every balanced token sequence and every policy, when the scan  *)
(* ends the frame stack holds exactly one frame, the root labelled         *)
(* top_node, and that single tree is what is yielded (every chunk frame    *)
(* has been re-parented under it).                                         *)
(***************************************************************************)
C1_SingleRootAtEnd ==
    (pc = "done" /\ Balanced(consumed))
        => /\ Len(result) = 1
           /\ IsRoot(result[1])

(***************************************************************************)
(* C2.  Round trip: for every balanced token sequence and every policy     *)
(* the leaves of the yielded root, depth-first and left to right, are the  *)
(* terminals of the input, in input order, none missing, duplicated or     *)
(* reordered.  Stated on the token texts: the tags are the subject of C7,  *)
(* and a leaf with no text stands for no terminal (C21).                   *)
(***************************************************************************)
Texts(leaves) == [i \in 1..Len(leaves) |-> leaves[i].tok]

C2_RoundTrip ==
    (pc = "done" /\ Balanced(consumed))
        => Texts(SelectSeq(Leaves(result[1]), HasText))
             = Texts(Terminals(consumed))

(***************************************************************************)
(* C3.  With chunk_types = {NP} and cascade, the tokens of                 *)
(* (NP (NP w1) w2) give a root whose only child is an NP node holding a    *)
(* nested NP node with leaf w1, followed by leaf w2.                       *)
(***************************************************************************)
NestedSentence ==
    << <<"(">> \o NP, <<"(">> \o NP, w1 \o <<")">>, w2 \o <<")">> >>

C3_CascadeNests ==
    (/\ pc = "done" /\ cascade
     /\ chunk_types = [isNone |-> FALSE, items |-> <<NP>>]
     /\ consumed = NestedSentence)
        => result = << Tree(top_node,
                         << Tree(NP, << Tree(NP, <<Leaf(NP, w1)>>),
                                        Leaf(NP, w2) >>) >>) >>

(***************************************************************************)
(* C4.  Without cascade chunks never nest: after every token the frame     *)
(* stack holds only the root, every chunk node is a child of the root and  *)
(* has only leaves as children, and a matching bracket opened while a      *)
(* chunk is open creates no node; (NP (NP w1) w2) with chunk_types = {NP}  *)
(* gives one flat NP node holding the leaves w1 and w2.                    *)
(***************************************************************************)
OnlyLeaves(t) == \A i \in 1..Len(t.kids) : t.kids[i].isLeaf

FlatShape ==
    /\ Len(stack) = 1
    /\ IsRoot(stack[1])
    /\ \A i \in 1..Len(stack[1].kids) :
           stack[1].kids[i].isLeaf \/ OnlyLeaves(stack[1].kids[i])

FlatExample ==
    (chunk_types = [isNone |-> FALSE, items |-> <<NP>>]
         /\ consumed = NestedSentence /\ pc # "error")
        => stack = << Tree(top_node,
                        << Tree(NP, <<Leaf(NP, w1), Leaf(NP, w2)>>) >>) >>

\* A token was scanned in this step.
Scanned == pc = "scan" /\ pc' = "scan" /\ consumed' # consumed

C4_FlatChunksNeverNest ==
    /\ [](~cascade => FlatShape /\ FlatExample)
    /\ [][(~cascade /\ Scanned /\ inTag # <<>>)
            => Len(ChunkNodes(stack')) = Len(ChunkNodes(stack))]_vars

C4_Witness ==
    /\ ~cascade /\ pc = "done"
    /\ chunk_types = [isNone |-> FALSE, items |-> <<NP>>]
    /\ consumed = NestedSentence
    /\ result = << Tree(top_node,
                     << Tree(NP, <<Leaf(NP, w1), Leaf(NP, w2)>>) >>) >>

(***************************************************************************)
(* C5.  With partial_match = false a chunk node is created for an opening  *)
(* bracket only if its label is equal to a member of chunk_types: brackets *)
(* labelled NP-SBJ or PP never create a chunk node when chunk_types =      *)
(* {NP}, and every chunk node is labelled with a member of chunk_types.    *)
(***************************************************************************)
IsExactOpen(tok) ==
    OpensBracket(tok) /\ Written(tok) \in Range(chunk_types.items)

C5_ExactMatchOnly ==
    (~partial_match /\ ~chunk_types.isNone)
        => /\ Labels(ChunkNodes(stack)) \subseteq Range(chunk_types.items)
           /\ Len(ChunkNodes(stack)) <= Len(SelectSeq(consumed, IsExactOpen))
           /\ cascade =>
                Len(ChunkNodes(stack)) = Len(SelectSeq(consumed, IsExactOpen))

C5_Witness ==
    /\ ~partial_match /\ cascade /\ pc = "done"
    /\ chunk_types = [isNone |-> FALSE, items |-> <<NP>>]
    /\ consumed = << <<"(">> \o NP_SBJ, <<"(">> \o PP, <<"(">> \o NP,
                     w1 \o <<")">> >>
    /\ Labels(ChunkNodes(result)) = {NP}
    /\ Len(ChunkNodes(result)) = 1

(***************************************************************************)
(* C6.  With partial_match = true a bracket whose label has a chunk type   *)
(* as prefix opens a chunk node labelled with the matched chunk type when  *)
(* collapse_partials is true (NP-SBJ becomes NP for chunk_types = {NP})    *)
(* and with the bracket's own label when collapse_partials is false.       *)
(* A bracket opens a node under cascade always, and without cascade when   *)
(* no chunk is open (C4).                                                  *)
(***************************************************************************)
PrefixTypes(label) ==
    { t \in Range(chunk_types.items) : IsPrefix(t, label) }

C6_PartialLabel ==
    [][(/\ Scanned /\ partial_match
        /\ OpensBracket(Last(consumed')) /\ ~ClosesBracket(Last(consumed'))
        /\ PrefixTypes(Written(Last(consumed'))) # {}
        /\ (cascade \/ inTag = <<>>))
         => /\ JustOpened'
            /\ NewChunk'.kids = <<>>
            /\ IF collapse_partials
               THEN NewChunk'.label \in PrefixTypes(Written(Last(consumed')))
               ELSE NewChunk'.label = Written(Last(consumed'))]_vars

C6_Witness ==
    /\ partial_match /\ collapse_partials /\ JustOpened
    /\ chunk_types = [isNone |-> FALSE, items |-> <<NP>>]
    /\ Last(consumed) = <<"(">> \o NP_SBJ
    /\ NewChunk = Tree(NP, <<>>)

(***************************************************************************)
(* C7.  Every leaf of the output carries as tag the label, as written in   *)
(* the input, of the nearest bracket that encloses the terminal, under     *)
(* every policy and whether or not that bracket became a chunk node.       *)
(* The leaves are taken from every frame that is yielded, bottom first,    *)
(* which is the order in which they were attached.                         *)
(***************************************************************************)
C7_LeafTagIsEnclosingLabel ==
    (pc = "done" /\ Balanced(consumed))
        => LET out == SelectSeq(LeavesOfAll(result), HasText)
               inp == Terminals(consumed)
           IN  /\ Len(out) = Len(inp)
               /\ \A i \in 1..Len(out) : out[i].label = inp[i].label

(***************************************************************************)
(* C8.  When chunk_types is None every opening bracket counts as a match   *)
(* and opens a chunk node, with partial_match true or false, and no error  *)
(* is raised for the policy.                                               *)
(***************************************************************************)
C8_NoneMatchesEverything ==
    chunk_types.isNone
        => /\ err # "TypeError"
           /\ (pc # "error" /\ cascade)
                => Len(ChunkNodes(stack))
                     = Len(SelectSeq(consumed, OpensBracket))

(***************************************************************************)
(* C9.  With partial_match and collapse_partials both true, when several   *)
(* entries of chunk_types are prefixes of a bracket label the chunk node   *)
(* is labelled with the first such entry in the order of chunk_types.      *)
(***************************************************************************)
FirstPrefixType(label) ==
    LET types == chunk_types.items
        i == CHOOSE k \in 1..Len(types) :
                 /\ IsPrefix(types[k], label)
                 /\ \A j \in 1..(k - 1) : ~IsPrefix(types[j], label)
    IN  types[i]

C9_FirstPrefixWins ==
    (JustOpened /\ partial_match /\ collapse_partials
         /\ PrefixTypes(Written(Last(consumed))) # {})
        => NewChunk.label = FirstPrefixType(Written(Last(consumed)))

(***************************************************************************)
(* C10.  The frame stack never underflows: after every token of any token  *)
(* sequence, balanced or not, under every policy, the stack holds at least *)
(* one frame and its bottom frame is the root labelled top_node.           *)
(***************************************************************************)
C10_RootNeverPopped ==
    /\ Len(stack) >= 1
    /\ IsRoot(stack[1])
    /\ pc = "done" => (Len(result) >= 1 /\ IsRoot(result[1]))

C10_Witness ==
    /\ cascade /\ pc = "scan"
    /\ bracket < 0
    /\ Len(stack) = 1
    /\ stack[1].kids # <<>>

(***************************************************************************)
(* C11.  On malformed input (more closing than opening brackets, opening   *)
(* brackets never closed, or a token that is only bracket characters) the  *)
(* builder does not crash: no step indexes the frame stack, the last child *)
(* of the top frame, the marker stack or the token text out of bounds.     *)
(***************************************************************************)
C11_NoCrashOnMalformedInput ==
    err \notin {"IndexError", "AttributeError"}

(***************************************************************************)
(* C12.  The builder signals a policy error when chunk_types is provided   *)
(* but empty while partial_match is true, and signals no error for any     *)
(* other policy combination.                                               *)
(***************************************************************************)
AmbiguousPolicy ==
    ~chunk_types.isNone /\ chunk_types.items = <<>> /\ partial_match

C12_PolicyError ==
    IF AmbiguousPolicy
    THEN pc # "done" /\ (consumed # <<>> => err = "PolicyError")
    ELSE err \notin {"PolicyError", "TypeError"}

(***************************************************************************)
(* C19.  For balanced input a leaf whose terminal lies inside an open      *)
(* chunk bracket is attached as a child of that chunk's node, never to the *)
(* root or to another chunk, and a leaf outside every chunk bracket is     *)
(* attached directly to the root.  Stated on the root: its own leaves are  *)
(* the terminals that no chunk bracket encloses, in input order.           *)
(***************************************************************************)
\* The bracket label is one the policy turns into a chunk.
IsChunkLabel(label) ==
    IF partial_match THEN PrefixTypes(label) # {}
    ELSE label \in Range(chunk_types.items)

\* For every closing token from the i-th on, its text when no bracket open
\* around it bears a chunk label; open holds, outermost first, whether
\* each bracket open before token i bears one.
RECURSIVE OutsideChunks(_, _, _)
OutsideChunks(toks, i, open) ==
    IF i > Len(toks) THEN <<>>
    ELSE
    LET tok   == toks[i]
        open1 == IF OpensBracket(tok)
                 THEN Append(open, IsChunkLabel(Written(tok))) ELSE open
        k     == TrailingCloses(tok)
        here  == IF /\ k > 0 /\ ~OpensBracket(tok) /\ Written(tok) # <<>>
                    /\ \A j \in 1..Len(open1) : ~open1[j]
                 THEN <<Written(tok)>> ELSE <<>>
        open2 == IF k >= Len(open1) THEN <<>>
                 ELSE SubSeq(open1, 1, Len(open1) - k)
    IN  here \o OutsideChunks(toks, i + 1, open2)

IsTextLeaf(t) == t.isLeaf /\ t.tok # <<>>

C19_LeafGoesToItsChunk ==
    (pc = "done" /\ Balanced(consumed) /\ ~chunk_types.isNone)
        => Texts(SelectSeq(result[1].kids, IsTextLeaf))
             = OutsideChunks(consumed, 1, <<>>)

(***************************************************************************)
(* C20.  The depth markers mirror the open chunk frames: with cascade,     *)
(* after every token the number of markers equals the number of chunk      *)
(* frames on the frame stack (frames minus the root), and each iteration   *)
(* of the closing loop removes one frame together with one marker.         *)
(***************************************************************************)
C20_MarkersMirrorFrames ==
    cascade => Len(inTag) = Len(stack) - 1


(***************************************************************************)
(* read_document: the dispatch on the format, and the files it opens       *)
(***************************************************************************)
MaxDocs == 2

\* The formats of the closed enumeration.
Formats == {"raw", "tokenized", "tagged", "chunked", "parsed",
            "parsed-no-pos"}

\* The format values a call is given: the six above and one outside them.
FormatChoices == Formats \cup {"xml"}

\* Document identifiers a call is given.
DocIds == {"cocuraC", "coaelhom", "wsj_0001"}

\* The documents each corpus holds on disk; coaelhom is a file whose text
\* holds an open-bracket on its own, on which _chunk_parse raises.
OnDisk(corpus) ==
    IF corpus = "ycoe" THEN {"cocuraC", "coaelhom"} ELSE {"wsj_0001"}

Malformed == {"coaelhom"}

\* The document arguments: one identifier, or a list (the empty list too).
DocLists ==
    UNION {[1..n -> DocIds] : n \in 0..MaxDocs}

ItemChoices ==
    {[isList |-> FALSE, docs |-> <<d>>] : d \in DocIds}
        \cup {[isList |-> TRUE, docs |-> ds] : ds \in DocLists}

Returned(n) == [status |-> "returned", err |-> "", opened |-> n]

Failed(e, n) == [status |-> "failed", err |-> e, opened |-> n]

\* find_corpus_file: the file of a document of the corpus, or an error.
find_corpus_file(corpus, doc) ==
    doc \in OnDisk(corpus)

\* _read: looks the file up, opens it and never closes it.
ReadPos(doc) ==
    IF find_corpus_file("ycoe", doc) THEN Returned(1)
    ELSE Failed("MissingFileError", 0)

\* The head of _chunk_parse: looks the file up, opens it, and scans its
\* sentences; the scan of a malformed sentence raises with the file open.
ChunkParseFile(doc) ==
    IF ~find_corpus_file("ycoe", doc) THEN Failed("MissingFileError", 0)
    ELSE IF doc \in Malformed THEN Failed("IndexError", 1)
    ELSE Returned(1)

\* read_document of ycoe.py for one identifier: the chain of tests on the
\* format, from 'raw' down to the final else.
ReadOne(doc, fmt) ==
    IF fmt = "raw"
      THEN IF find_corpus_file("ycoe", doc) THEN Returned(1)
           ELSE Failed("MissingFileError", 0)
    ELSE IF fmt = "tokenized" THEN ReadPos(doc)
    ELSE IF fmt = "tagged" THEN ReadPos(doc)
    ELSE IF fmt = "chunked" THEN ChunkParseFile(doc)
    ELSE IF fmt = "parsed"
      THEN IF find_corpus_file("ycoe", doc) THEN Returned(1)
           ELSE Failed("MissingFileError", 0)
    ELSE Failed("ValueError", 0)

\* The list comprehension handed to concat: the documents are read in
\* order, the first failure ends the call, and the files opened so far
\* stay open.
RECURSIVE ReadEach(_, _, _)
ReadEach(docs, fmt, opened) ==
    IF docs = <<>> THEN Returned(opened)
    ELSE LET r == ReadOne(Head(docs), fmt)
         IN  IF r.status = "failed" THEN Failed(r.err, opened + r.opened)
             ELSE ReadEach(Tail(docs), fmt, opened + r.opened)

\* read_document of ycoe.py: a list is read document by document before
\* the format is looked at.
read_document(itm, fmt) ==
    IF itm.isList THEN ReadEach(itm.docs, fmt, 0)
    ELSE ReadOne(itm.docs[1], fmt)

\* read_document of treebank.py: the format is tested first; only 'raw'
\* opens the file itself, the other formats return a view on the file name.
treebank_read_document(itm, fmt) ==
    IF fmt \notin {"parsed", "parsed-no-pos", "chunked", "tagged",
                   "tokenized", "raw"}
      THEN Failed("ValueError", 0)
    ELSE IF itm.isList \/ ~find_corpus_file("treebank", itm.docs[1])
      THEN Failed("MissingFileError", 0)
    ELSE IF fmt = "raw" THEN Returned(1)
    ELSE Returned(0)

ReadInit ==
    /\ IdleBuilder /\ IdleCtor /\ IdleText
    /\ reader \in {"ycoe", "treebank"}
    /\ format \in FormatChoices
    /\ item \in ItemChoices
    /\ handles = 0
    /\ outcome = [status |-> "pending", err |-> ""]

\* One call of read_document.  No statement of either module closes a
\* file: a file object the call opened is closed only when the runtime
\* reclaims it, which may or may not have happened when the call ends.
ReadCall ==
    /\ outcome.status = "pending"
    /\ LET r == IF reader = "ycoe" THEN read_document(item, format)
                ELSE treebank_read_document(item, format)
       IN  /\ outcome' = [status |-> r.status, err |-> r.err]
           /\ handles' \in 0..r.opened
    /\ UNCHANGED <<reader, format, item, builderVars, ctorVars, textVars>>

\* The runtime reclaims a file object that is no longer referenced.
Reclaim ==
    /\ outcome.status # "pending"
    /\ handles > 0
    /\ handles' = handles - 1
    /\ UNCHANGED <<reader, format, item, outcome, builderVars, ctorVars,
                   textVars>>

ReadNext == ReadCall \/ Reclaim

ReadSpec == ReadInit /\ [][ReadNext]_vars

\* C13: read_document accepts exactly the six formats of the enumeration:
\* a call with one of them does not end in the unsupported-format error,
\* and a call with any other format ends in that error (ValueError),
\* whatever the document argument is.
C13_ClosedFormatEnum ==
    outcome.status \in {"returned", "failed"}
        => /\ format \in Formats => outcome.err # "ValueError"
           /\ format \notin Formats
                => outcome.status = "failed" /\ outcome.err = "ValueError"

\* C16: when a read has returned or failed, no file it opened is open.
C16_HandlesClosedAtExit ==
    outcome.status \in {"returned", "failed"} => handles = 0


(***************************************************************************)
(* YCOECorpusReader.__init__ and the methods that delegate to sub-readers  *)
(***************************************************************************)
MaxItems == 2

MaxReads == 2

\* The item lists a sub-reader can hold: its files, in the order found.
ItemLists ==
    UNION {[1..n -> DocIds] : n \in 0..MaxItems}

\* The comparison __init__ makes: the two lists as sets.
ItemsMatchAsLists(psd, pos) ==
    psd = pos

ItemsMatch(psd, pos) ==
    Range(psd) = Range(pos)

CtorInit ==
    /\ IdleBuilder /\ IdleRead /\ IdleText
    /\ psd_items \in ItemLists
    /\ pos_items \in ItemLists
    /\ items = NoItems
    /\ ctor = "new"
    /\ reads = 0

\* __init__: the two sub-readers are built, their items compared, and
\* only then self.items is assigned.
Construct ==
    /\ ctor = "new"
    /\ IF ItemsMatch(psd_items, pos_items)
         THEN ctor' = "ready" /\ items' = psd_items
         ELSE ctor' = "ValueError" /\ items' = items
    /\ UNCHANGED <<psd_items, pos_items, reads, builderVars, readVars,
                   textVars>>

\* words, sents, paras, tagged_words, tagged_sents, tagged_paras and
\* parsed_sents: methods of the constructed object, each one call on a
\* sub-reader.
Delegate ==
    /\ ctor = "ready"
    /\ reads < MaxReads
    /\ reads' = reads + 1
    /\ UNCHANGED <<psd_items, pos_items, items, ctor, builderVars, readVars,
                   textVars>>

CtorNext == Construct \/ Delegate

CtorSpec == CtorInit /\ [][CtorNext]_vars

\* C14: when the item sets of the psd and pos sub-readers differ,
\* construction ends in ValueError with items never set and no read made;
\* when they are equal it succeeds and items is that set.
C14_ManifestMismatch ==
    /\ ctor # "new"
         => IF Range(psd_items) # Range(pos_items)
            THEN ctor = "ValueError"
            ELSE ctor = "ready" /\ Range(items) = Range(psd_items)
                                /\ Range(items) = Range(pos_items)
    /\ ctor \in {"new", "ValueError"} => items = NoItems /\ reads = 0

\* Two sub-readers holding the same documents in different orders were
\* accepted, and a read was delegated.
C14_WitnessAccepted ==
    /\ ctor = "ready"
    /\ psd_items # pos_items
    /\ Range(psd_items) = Range(pos_items)
    /\ items = psd_items
    /\ reads > 0

\* Two sub-readers holding different documents were refused.
C14_Witness ==
    /\ ctor = "ValueError"
    /\ Range(psd_items) # Range(pos_items)
    /\ items = NoItems


(***************************************************************************)
(* Document text: the metadata stripping and the sentence segmenter        *)
(***************************************************************************)
MaxPieces == 4

CODE_x == <<"(", "C", "O", "D", "E", " ", "x", ")">>
ID_a1  == <<"(", "I", "D", " ", "a", "1", ")">>
NP_w   == <<"(", "N", "P", " ", "w", ")">>
NL     == <<"\n">>
SP     == <<" ">>

\* The pieces a document text is made of.
Pieces == {CODE_x, ID_a1, NP_w, w, NL, SP}

DocumentTexts == UNION {[1..n -> Pieces] : n \in 0..MaxPieces}

RECURSIVE Flatten(_)
Flatten(ps) == IF ps = <<>> THEN <<>> ELSE Head(ps) \o Flatten(Tail(ps))

\* The document text read from the file.
Text == Flatten(pieces)

\* \s and \d of the re module
Whitespace == {" ", "\t", "\n"}

Digits == {"0", "1", "2", "3", "4", "5", "6", "7", "8", "9"}

Max(xs) == CHOOSE x \in xs : \A y \in xs : y <= x

Min(xs) == CHOOSE x \in xs : \A y \in xs : x <= y

StartsAt(s, i, p) ==
    i + Len(p) - 1 <= Len(s) /\ SubSeq(s, i, i + Len(p) - 1) = p

\* The end of the line position i is on: `.` does not match a newline.
LineEnd(s, i) ==
    IF \E j \in i..Len(s) : s[j] = "\n"
    THEN Min({j \in i..Len(s) : s[j] = "\n"}) - 1
    ELSE Len(s)

\* rx_pattern of _parse, compiled with re.VERBOSE: \(CODE.*\)|\(ID.*\d\).
\* The last position of its match starting at i, 0 when there is none;
\* `.*` is greedy, so the match runs to the last fitting `)` of the line.
rx_pattern(s, i) ==
    LET e == LineEnd(s, i)
        code == {j \in (i + 5)..e : s[j] = ")"}
        id == {j \in (i + 4)..e : s[j] = ")" /\ s[j - 1] \in Digits}
    IN  IF StartsAt(s, i, <<"(", "C", "O", "D", "E">>) /\ code # {}
          THEN Max(code)
        ELSE IF StartsAt(s, i, <<"(", "I", "D">>) /\ id # {}
          THEN Max(id)
        ELSE 0

\* re.sub(rx_pattern, '', s), scanning from position i.
RECURSIVE StripMetadata(_, _)
StripMetadata(s, i) ==
    IF i > Len(s) THEN <<>>
    ELSE LET e == rx_pattern(s, i)
         IN  IF e = 0 THEN <<s[i]>> \o StripMetadata(s, i + 1)
             ELSE StripMetadata(s, e + 1)

\* The pattern of YCOEParseCorpusReader._parse: \((CODE|ID)[^\)]*\).
\* The last position of its match starting at i, 0 when there is none.
NodePattern(s, i) ==
    LET k == IF StartsAt(s, i, <<"(", "C", "O", "D", "E">>) THEN i + 5
             ELSE IF StartsAt(s, i, <<"(", "I", "D">>) THEN i + 3
             ELSE 0
        close == {j \in k..Len(s) : s[j] = ")"}
    IN  IF k = 0 \/ close = {} THEN 0 ELSE Min(close)

\* re.sub(r'(?u)\((CODE|ID)[^\)]*\)', '', t), scanning from position i.
RECURSIVE StripNodes(_, _)
StripNodes(t, i) ==
    IF i > Len(t) THEN <<>>
    ELSE LET e == NodePattern(t, i)
         IN  IF e = 0 THEN <<t[i]>> \o StripNodes(t, i + 1)
             ELSE StripNodes(t, e + 1)

RECURSIVE DropLeading(_, _)
DropLeading(s, chars) ==
    IF s # <<>> /\ Head(s) \in chars THEN DropLeading(Tail(s), chars) ELSE s

RECURSIVE DropTrailing(_, _)
DropTrailing(s, chars) ==
    IF s # <<>> /\ Last(s) \in chars
    THEN DropTrailing(SubSeq(s, 1, Len(s) - 1), chars)
    ELSE s

\* re.sub of a run of the given characters by one space
RECURSIVE CollapseRuns(_, _)
CollapseRuns(s, chars) ==
    IF s = <<>> THEN <<>>
    ELSE IF Head(s) \in chars
      THEN <<" ">> \o CollapseRuns(DropLeading(s, chars), chars)
    ELSE <<Head(s)>> \o CollapseRuns(Tail(s), chars)

\* _strip_spaces: its six substitutions, in order.
strip_spaces(s) ==
    LET s1 == IF s # <<>> /\ Head(s) = "(" THEN Tail(s) ELSE s
        t2 == DropTrailing(s1, Whitespace)
        s2 == IF t2 # <<>> /\ Last(t2) = ")"
              THEN SubSeq(t2, 1, Len(t2) - 1) ELSE s1
        s3 == DropLeading(s2, Whitespace)
        s4 == DropTrailing(s3, Whitespace)
        s5 == CollapseRuns(s4, {"\t"})
    IN  CollapseRuns(s5, Whitespace)

\* list(tokenize.regexp(sent, r'^\(')) != []
StartsSentence(sent) == sent # <<>> /\ Head(sent) = "("

\* The flush of the buffer never happens.
FlushNever(fullPhrase) == <<>>

\* fullPhrase = _strip_spaces(fullPhrase); if fullPhrase != "": yield
Flush(fullPhrase) ==
    LET p == strip_spaces(fullPhrase)
    IN  IF p # <<>> THEN <<p>> ELSE <<>>

\* The loop of _parse over the lines, and the flush after it.
RECURSIVE SentenceLoop(_, _)
SentenceLoop(lines, fullPhrase) ==
    IF lines = <<>> THEN Flush(fullPhrase)
    ELSE IF StartsSentence(Head(lines))
      THEN Flush(fullPhrase) \o SentenceLoop(Tail(lines), Head(lines))
    ELSE SentenceLoop(Tail(lines), fullPhrase \o Head(lines))

TextInit ==
    /\ IdleBuilder /\ IdleCtor /\ IdleRead
    /\ pieces \in DocumentTexts
    /\ cleaned = <<>> /\ sents = <<>> /\ handed = <<>>
    /\ tpc = "new"

\* _parse, consumed to its end.
Segment ==
    /\ tpc = "new"
    /\ cleaned' = StripMetadata(Text, 1)
    /\ sents' = SentenceLoop(split(cleaned', "\n"), <<>>)
    /\ tpc' = "segmented"
    /\ UNCHANGED <<pieces, handed, builderVars, ctorVars, readVars>>

\* YCOEParseCorpusReader._parse: s is computed and dropped, and t is what
\* the base class is called with.  The call is made on the class, without
\* an instance: it goes through if the base _parse takes the text as its
\* only argument and raises TypeError if it is an instance method.
ReaderParse ==
    /\ tpc = "new"
    /\ LET s == StripNodes(Text, 1)
       IN  \/ handed' = Text /\ tpc' = "parsed"
           \/ handed' = handed /\ tpc' = "TypeError"
    /\ UNCHANGED <<pieces, cleaned, sents, builderVars, ctorVars, readVars>>

TextNext == Segment \/ ReaderParse

TextSpec == TextInit /\ [][TextNext]_vars


\* No line of the document begins with an open-bracket.
NoBracketLine ==
    \A l \in Range(split(Text, "\n")) : ~StartsSentence(l)

NotNewline(c) == c # "\n"

\* The text of all the lines of the cleaned document, joined.
Joined == SelectSeq(cleaned, NotNewline)

\* C15 as stated: an empty document yields no sentence, and so does any
\* document none of whose lines begins with an open-bracket.
C15_NoBracketLineNoSentence ==
    tpc = "segmented"
        => /\ Text = <<>> => sents = <<>>
           /\ NoBracketLine => sents = <<>>

\* C15, amended: an empty document yields no sentence; a document none of
\* whose lines begins with an open-bracket yields at most one sentence,
\* the joined text of its lines normalised, and yields none only when that
\* text is empty after normalisation.
C15_NoBracketLineOneSentence ==
    tpc = "segmented"
        => /\ Text = <<>> => sents = <<>>
           /\ NoBracketLine
                => /\ Len(sents) <= 1
                   /\ sents = <<>> <=> strip_spaces(Joined) = <<>>
                   /\ sents # <<>> => sents[1] = strip_spaces(Joined)

\* The two lines `w` and `w`, neither bracket-leading, came out as the
\* one sentence `ww`.
C15_Witness ==
    /\ tpc = "segmented"
    /\ pieces = <<w, NL, w>>
    /\ NoBracketLine
    /\ sents = <<w \o w>>

\* A (CODE ...) or (ID ...) node starts somewhere in the text.
HasNode(t) ==
    \E i \in 1..Len(t) : NodePattern(t, i) # 0

\* C17: the text YCOEParseCorpusReader._parse hands to the base parser is
\* its input with every (CODE ...) and (ID ...) node removed, so it holds
\* no such node.
C17_NodesStripped ==
    tpc = "parsed"
        => handed = StripNodes(Text, 1) /\ ~HasNode(handed)

IsAnnotation(p) == p \in {CODE_x, ID_a1}

NotAnnotation(p) == ~IsAnnotation(p)

RECURSIVE BracketDepth(_)
BracketDepth(t) ==
    IF t = <<>> THEN 0
    ELSE BracketDepth(Tail(t))
           + (IF Head(t) = "(" THEN 1 ELSE IF Head(t) = ")" THEN -1 ELSE 0)

\* C18: the stripping of _parse removes the (CODE ...) and (ID ...) nodes
\* and nothing else: the cleaned text is the document without its
\* annotation nodes, every other piece kept in place, and so as balanced
\* as the document was.
C18_OnlyNodesRemoved ==
    tpc = "segmented"
        => /\ cleaned = Flatten(SelectSeq(pieces, NotAnnotation))
           /\ BracketDepth(cleaned) = BracketDepth(Text)


(***************************************************************************)
(* Closing tokens without text, termination, and plain tokens              *)
(***************************************************************************)
\* C21: a closing token with no text before its close-brackets attaches
\* nothing: no leaf of the trees built so far, and so none of the output
\* tree, has an empty token text.
C21_NoEmptyLeaf ==
    \A i \in 1..Len(LeavesOfAll(stack)) : LeavesOfAll(stack)[i].tok # <<>>


\* The for loop goes on to the next token, and to the yield after the
\* last one, as long as no exception ends the generator.
FairSpec == Spec /\ WF_vars(Next)

\* The scan has ended: the stack was yielded, or an exception was raised.
Stopped == pc \in {"done", "error"}

\* Every scan ends, with a result or with an exception.
EventuallyStopped == <>Stopped

\* C22: the builder terminates on every token sequence under every
\* policy, and the sentence's result is eventually produced.
C22_ResultEventuallyProduced ==
    <>(pc = "done")


\* A token with neither a leading open-bracket nor a trailing
\* close-bracket.
PlainToken(tok) ==
    /\ tok # <<>>
    /\ tok[1] \notin {"(", "[", "{", "<"}
    /\ tok[Len(tok)] \notin {")", "]", "}", ">"}

\* A plain token was taken from the token stream in this step.
ScannedPlain ==
    /\ pc = "scan"
    /\ consumed' # consumed
    /\ PlainToken(Last(consumed'))

\* C23: a token with neither a leading open-bracket nor a trailing
\* close-bracket changes nothing: the scan goes on with the same depth,
\* the same current label, the same frames and trees and the same
\* markers, and no leaf is added for its text.
C23_PlainTokenNoEffect ==
    [][ScannedPlain
        => /\ pc' = "scan"
           /\ UNCHANGED <<bracket, itmType, stack, inTag>>
           /\ LeavesOfAll(stack') = LeavesOfAll(stack)]_vars

\* The plain token `w` was scanned inside the open chunk `(NP` and left
\* the chunk empty, with the depth, the label and the marker as they were.
C23_Witness ==
    /\ pc = "scan" /\ ~cascade
    /\ consumed = <<<<"(", "N", "P">>, w>>
    /\ bracket = 1 /\ itmType = NP /\ inTag = <<1>>
    /\ stack = <<Tree(top_node, <<Tree(NP, <<>>)>>)>>

=============================================================================
